---- MODULE Spec2Model ----
(***************************************************************************)
(* Model of gateway/auth.py: the login_required wrapper of the API         *)
(* gateway, with fetch_public_key, decode_token, user_whitelisted and      *)
(* get_whitelist.                                                          *)
(*                                                                         *)
(* Python strings are sequences of one-character strings, so that          *)
(* str.split(',') and '{u}@{d}'.format(...) are computed character by      *)
(* character.  The value None (an unset environment variable, a missing    *)
(* dict key, an attribute not yet assigned) is the marker PyNone.          *)
(*                                                                         *)
(* Spec       authentication is on and os.environ is fixed; requests are   *)
(*            handled one after the other, one action = one whole call of  *)
(*            wrapper                                                      *)
(* SpecEnv    the same, and os.environ changes between the requests        *)
(* SpecDecode decode_token alone, applied once to any token, key and list  *)
(*            of audiences                                                 *)
(* SpecConc   NumThreads requests are handled concurrently, one action =   *)
(*            one step of a thread between two accesses to the shared app  *)
(*            object; os.environ and the configuration are fixed           *)
(***************************************************************************)
EXTENDS Naturals, Sequences, FiniteSets

VARIABLES
  environ,            \* os.environ: DISABLE_AUTHENTICATION, USER_WHITELIST, USER_DOMAIN
  config,             \* configuration / app.config: the three BAYESIAN_* settings
  app_public_key,     \* app.public_key (PyNone until assigned)
  app_user_whitelist, \* app.user_whitelist (<<>> until assigned: getattr(..., ''))
  first_environ,      \* history: os.environ when get_whitelist first computed the tuple
  nreq,               \* history: number of requests handled so far
  last,               \* history: the last request handled, its inputs and what it did
  th                  \* the threads handling requests concurrently (SpecConc)

vars == <<environ, config, app_public_key, app_user_whitelist, first_environ, nreq, last, th>>

-----------------------------------------------------------------------------
(* Bounds *)

\* requests handled in one behaviour of Spec
MaxRequests == 3

\* requests handled concurrently in SpecConc
NumThreads == 2

\* audiences in BAYESIAN_JWT_AUDIENCE in SpecDecode
MaxAudiences == 3

-----------------------------------------------------------------------------
(* Python values *)

\* None where a str is expected
PyNone == <<"None">>

\* None where a dict or another object is expected
NoneObject == [py |-> "None"]

\* truth value of a str / tuple / None
Truthy(v) == v # PyNone /\ v # <<>>

\* 'redhat.com', the default of os.environ.get('USER_DOMAIN', ...)
DEFAULT_USER_DOMAIN ==
  <<"r", "e", "d", "h", "a", "t", ".", "c", "o", "m">>

\* 'nobody@nowhere.nodomain', the default of decoded.get('email', ...)
NOBODY_EMAIL ==
  <<"n", "o", "b", "o", "d", "y", "@", "n", "o", "w", "h", "e", "r", "e", ".", "n", "o", "d", "o", "m", "a", "i", "n">>

\* 'unauthenticated@no.auth.token', the identity attached on rejection
UNAUTHENTICATED_EMAIL ==
  <<"u", "n", "a", "u", "t", "h", "e", "n", "t", "i", "c", "a", "t", "e", "d", "@", "n", "o", ".", "a", "u", "t", "h", ".", "t", "o", "k", "e", "n">>

\* DISABLE_VALUES as if the test were written with 'TRUE' for 'True'
DISABLE_VALUES_upper ==
  { <<"1">>, <<"T", "R", "U", "E">>, <<"t", "r", "u", "e">> }

\* the values of DISABLE_AUTHENTICATION that switch authentication off
DISABLE_VALUES ==
  { <<"1">>, <<"T", "r", "u", "e">>, <<"t", "r", "u", "e">> }

\* the PEM armour fetch_public_key puts around the key it fetched
PEM_BEGIN ==
  <<"-", "-", "-", "-", "-", "B", "E", "G", "I", "N", " ", "P", "U", "B", "L", "I", "C", " ", "K", "E", "Y", "-", "-", "-", "-", "-", "\n">>

PEM_END ==
  <<"\n", "-", "-", "-", "-", "-", "E", "N", "D", " ", "P", "U", "B", "L", "I", "C", " ", "K", "E", "Y", "-", "-", "-", "-", "-">>

\* '-----BEGIN PUBLIC KEY-----\n{pkey}\n-----END PUBLIC KEY-----'.format(pkey=pkey)
Pem(pkey) == PEM_BEGIN \o pkey \o PEM_END

\* '{u}@{d}'.format(u=x, d=domain)
FormatEmail(u, d) == u \o <<"@">> \o d

\* s.split(','), scanning s from position i; cur is the piece being read and
\* acc the pieces already cut.  The result always has at least one piece.
RECURSIVE split(_, _, _, _)
split(s, i, cur, acc) ==
  IF i > Len(s) THEN Append(acc, cur)
  ELSE IF s[i] = "," THEN split(s, i + 1, <<>>, Append(acc, cur))
  ELSE split(s, i + 1, Append(cur, s[i]), acc)

Split(s) == split(s, 1, <<>>, <<>>)

\* os.environ.get(name, default) / dict.get(key, default)
GetOr(v, default) == IF v = PyNone THEN default ELSE v

\* Among the events of a call, in order: e happened; e1 happened and e2 after it.
Happened(events, e) == \E i \in 1..Len(events) : events[i] = e

Before(events, e1, e2) ==
  \E i, j \in 1..Len(events) : i < j /\ events[i] = e1 /\ events[j] = e2

-----------------------------------------------------------------------------
(* fetch_public_key *)

\* What requests.get does: it raises Timeout or ConnectionError, or it returns
\* a response with a status code and a body, which is JSON or not and, when
\* JSON, has a 'public_key' field (a string) or none (PyNone).
Response(exc, status_code, is_json, public_key) ==
  [exc |-> exc, status_code |-> status_code, is_json |-> is_json, public_key |-> public_key]

\* A call that returned val / that raised exc.  public_key is app.public_key
\* after the call and events what the call did, in order.
Return(val, public_key, events) ==
  [kind |-> "return", val |-> val, exc |-> "", public_key |-> public_key, events |-> events]

Raise(exc, public_key, events) ==
  [kind |-> "raise", val |-> NoneObject, exc |-> exc, public_key |-> public_key, events |-> events]

fetch_public_key(cfg, public_key, resp) ==
  IF Truthy(cfg.BAYESIAN_FETCH_PUBLIC_KEY)
  THEN IF resp.exc = "Timeout" THEN Return(<<>>, public_key, <<"get">>)
       ELSE IF resp.exc # "" THEN Raise(resp.exc, public_key, <<"get">>)
       ELSE IF resp.status_code # 200 THEN Return(<<>>, public_key, <<"get">>)
       ELSE IF ~resp.is_json THEN Raise("ValueError", public_key, <<"get">>)
       ELSE LET pkey == GetOr(resp.public_key, <<>>)
            IN  Return(Pem(pkey), Pem(pkey), <<"get", "app.public_key=">>)
  ELSE Return(cfg.BAYESIAN_PUBLIC_KEY, cfg.BAYESIAN_PUBLIC_KEY, <<"app.public_key=">>)

-----------------------------------------------------------------------------
(* decode_token *)

\* The bodies of the keys an identity provider may publish.
KEY1 == <<"K", "1">>

KEY2 == <<"K", "2">>

KeyBodies == {KEY1, KEY2}

\* A token, by what jwt.decode looks at: whether the string is pure ASCII,
\* the key whose signature it carries, whether exp is in the past, its aud
\* claim (a set of audiences) and its email claim (PyNone when it has none).
Token(ascii, signer, expired, aud, email) ==
  [ascii |-> ascii, signer |-> signer, expired |-> expired, aud |-> aud, email |-> email]

\* The exception classes below jwt.InvalidTokenError: the ones the loop of
\* decode_token catches.
InvalidTokenErrors ==
  {"InvalidTokenError", "DecodeError", "InvalidSignatureError",
   "ExpiredSignatureError", "InvalidAudienceError"}

\* The claims of a verified token.
Claims(email) == [py |-> "dict", email |-> email]

\* {}
EmptyClaims == Claims(PyNone)

\* jwt.decode(token.encode('ascii'), pub_key, algorithm='RS256', audience=aud):
\* the claims, or the exception raised.  The token is encoded first, then the
\* key is loaded, then the signature, exp and aud are checked in this order.
jwt_decode(token, pub_key, aud) ==
  LET raise(exc) == [kind |-> "raise", val |-> NoneObject, exc |-> exc]
  IN  IF ~token.ascii THEN raise("UnicodeEncodeError")
      ELSE IF pub_key = PyNone THEN raise("TypeError")
      ELSE IF \A body \in KeyBodies : pub_key # Pem(body) THEN raise("ValueError")
      ELSE IF pub_key # Pem(token.signer) THEN raise("InvalidSignatureError")
      ELSE IF token.expired THEN raise("ExpiredSignatureError")
      ELSE IF aud \notin token.aud THEN raise("InvalidAudienceError")
      ELSE [kind |-> "return", val |-> Claims(token.email), exc |-> ""]

\* decode_loop as if the loop had no break: every audience is tried and the
\* last one that verifies wins
RECURSIVE decode_loop_no_break(_, _, _, _)
decode_loop_no_break(token, pub_key, audiences, i) ==
  IF i > Len(audiences)
  THEN [kind |-> "raise", val |-> NoneObject, exc |-> "InvalidTokenError", attempts |-> i - 1]
  ELSE LET r == jwt_decode(token, pub_key, audiences[i])
           rest == decode_loop_no_break(token, pub_key, audiences, i + 1)
       IN  IF r.kind = "return"
           THEN IF rest.kind = "return" THEN rest
                ELSE [kind |-> "return", val |-> r.val, exc |-> "",
                      attempts |-> Len(audiences)]
           ELSE IF r.exc \in InvalidTokenErrors THEN rest
           ELSE [kind |-> "raise", val |-> NoneObject, exc |-> r.exc, attempts |-> i]

\* The for loop of decode_token from audience number i on: the claims of the
\* first audience that verifies, with the number of audiences tried.  An
\* InvalidTokenError moves on to the next audience, any other exception leaves
\* the loop and the function.
RECURSIVE decode_loop(_, _, _, _)
decode_loop(token, pub_key, audiences, i) ==
  IF i > Len(audiences)
  THEN [kind |-> "raise", val |-> NoneObject, exc |-> "InvalidTokenError", attempts |-> i - 1]
  ELSE LET r == jwt_decode(token, pub_key, audiences[i])
       IN  IF r.kind = "return"
           THEN [kind |-> "return", val |-> r.val, exc |-> "", attempts |-> i]
           ELSE IF r.exc \in InvalidTokenErrors
           THEN decode_loop(token, pub_key, audiences, i + 1)
           ELSE [kind |-> "raise", val |-> NoneObject, exc |-> r.exc, attempts |-> i]

\* n times the event e
RECURSIVE Repeat(_, _)
Repeat(e, n) == IF n = 0 THEN <<>> ELSE <<e>> \o Repeat(e, n - 1)

\* The Authorization header of a request: absent, or a token with or without
\* the 'Bearer ' prefix.
NoHeader == [present |-> FALSE]

Header(bearer, token) == [present |-> TRUE, bearer |-> bearer, token |-> token]

\* A function that was not called.
NotCalled == [kind |-> "not called"]

\* The result of decode_token: as Return / Raise, with the result of
\* fetch_public_key, the key given to jwt.decode and the number of audiences
\* tried.
Decoded(kind, val, exc, public_key, events, fetched, pub_key, attempts) ==
  [kind |-> kind, val |-> val, exc |-> exc, public_key |-> public_key, events |-> events,
   fetched |-> fetched, pub_key |-> pub_key, attempts |-> attempts]

\* request.headers.get('Authorization') is None for NoHeader; the 'Bearer '
\* prefix is cut off, which leaves the token either way.
decode_token(cfg, public_key, header, resp) ==
  IF ~header.present
  THEN Decoded("return", EmptyClaims, "", public_key, <<>>, NotCalled, PyNone, 0)
  ELSE LET token == header.token
           f == fetch_public_key(cfg, public_key, resp)
       IN  IF f.kind = "raise"
           THEN Decoded("raise", NoneObject, f.exc, f.public_key, f.events, f, PyNone, 0)
           ELSE LET audiences == Split(cfg.BAYESIAN_JWT_AUDIENCE)
                    d == decode_loop(token, f.val, audiences, 1)
                IN  Decoded(d.kind, d.val, d.exc, f.public_key,
                            f.events \o Repeat("jwt.decode", d.attempts),
                            f, f.val, d.attempts)

-----------------------------------------------------------------------------
(* user_whitelisted, get_whitelist *)

\* F8aUser(email).  The class defines neither __bool__ nor __len__, so every
\* instance is true.
F8aUser(email) == [email |-> email]

UserTruthy(user) == TRUE

\* The tuple get_whitelist builds from os.environ.
compute_whitelist(env) ==
  LET whitelist_str == GetOr(env.USER_WHITELIST, <<>>)
      domain == GetOr(env.USER_DOMAIN, DEFAULT_USER_DOMAIN)
      parts == Split(whitelist_str)
  IN  [k \in 1..Len(parts) |-> FormatEmail(parts[k], domain)]

\* get_whitelist as if it had no test of app.user_whitelist: the tuple is
\* built at every call
get_whitelist_uncached(env, user_whitelist) ==
  LET whitelist == compute_whitelist(env)
  IN  [val |-> whitelist, user_whitelist |-> whitelist,
       events |-> <<"app.user_whitelist=">>]

\* val is the tuple returned, user_whitelist is app.user_whitelist after the call.
get_whitelist(env, user_whitelist) ==
  IF ~Truthy(user_whitelist)
  THEN LET whitelist == compute_whitelist(env)
       IN  [val |-> whitelist, user_whitelist |-> whitelist,
            events |-> <<"app.user_whitelist=">>]
  ELSE [val |-> user_whitelist, user_whitelist |-> user_whitelist, events |-> <<>>]

\* user.email in get_whitelist(app)
user_whitelisted(env, user_whitelist, user) ==
  LET w == get_whitelist(env, user_whitelist)
  IN  [kind |-> "return",
       val |-> (\E k \in 1..Len(w.val) : w.val[k] = user.email),
       user_whitelist |-> w.user_whitelist,
       events |-> <<"get_whitelist">> \o w.events]

-----------------------------------------------------------------------------
(* login_required.wrapper *)

MSG_TOKEN_MISSING == "Authentication failed - token missing"

MSG_TOKEN_EXPIRED == "Authentication failed - token has expired"

MSG_COULD_NOT_DECODE == "Authentication failed - could not decode JWT token"

MSG_NOT_WHITELISTED == "User is not whitelisted"

MSG_AUTH_REQUIRED == "Authentication required"

\* What one call of wrapper did.  outcome is ADMIT when it returned
\* view(*args, **kwargs) and REJECT when it raised HTTPError(status, message);
\* current_user is g.current_user when it ended (PyNone when never assigned);
\* public_key and user_whitelist are the attributes of app when it ended;
\* events is what it did, in order; decoded is the result of decode_token,
\* user the email of the F8aUser it built and allowed the result of
\* user_whitelisted.
Outcome(outcome, status, message, current_user, public_key, user_whitelist, events, decoded, user, allowed) ==
  [outcome |-> outcome, status |-> status, message |-> message,
   current_user |-> current_user, public_key |-> public_key,
   user_whitelist |-> user_whitelist, events |-> events, decoded |-> decoded,
   user |-> user, allowed |-> allowed]

\* The except clauses of wrapper: d is a decode_token call that raised, or
\* the HTTPError 'token missing' raised inside the try block (exc "HTTPError").
\* Only an exception of class ExpiredSignatureError gets the first clause.
except_clauses(exc, d, user_whitelist) ==
  IF exc = "ExpiredSignatureError"
  THEN Outcome("REJECT", 401, MSG_TOKEN_EXPIRED, PyNone, d.public_key, user_whitelist,
               d.events \o <<"raise">>, d, PyNone, NotCalled)
  ELSE Outcome("REJECT", 401, MSG_COULD_NOT_DECODE, PyNone, d.public_key, user_whitelist,
               d.events \o <<"raise">>, d, PyNone, NotCalled)

\* reject_not_whitelisted as if it raised without the assignment to
\* g.current_user
reject_not_whitelisted_unassigned(d, w, user) ==
  Outcome("REJECT", 401, MSG_NOT_WHITELISTED, PyNone, d.public_key,
          w.user_whitelist, d.events \o w.events \o <<"raise">>,
          d, user.email, w)

\* The branch of wrapper for a user who is not whitelisted: the identity
\* 'unauthenticated@no.auth.token' goes to g.current_user, then HTTPError.
reject_not_whitelisted(d, w, user) ==
  Outcome("REJECT", 401, MSG_NOT_WHITELISTED, UNAUTHENTICATED_EMAIL, d.public_key,
          w.user_whitelist, d.events \o w.events \o <<"g.current_user=", "raise">>,
          d, user.email, w)

wrapper(env, cfg, public_key, user_whitelist, header, resp) ==
  IF env.DISABLE_AUTHENTICATION \in DISABLE_VALUES
  THEN Outcome("ADMIT", 200, "", PyNone, public_key, user_whitelist,
               <<"view">>, NotCalled, PyNone, NotCalled)
  ELSE
    LET d == decode_token(cfg, public_key, header, resp)
    IN  IF d.kind = "raise" THEN except_clauses(d.exc, d, user_whitelist)
        ELSE IF d.val = NoneObject THEN except_clauses("HTTPError", d, user_whitelist)
        ELSE
          LET user == F8aUser(GetOr(d.val.email, NOBODY_EMAIL))
          IN  IF UserTruthy(user)
              THEN LET w == user_whitelisted(env, user_whitelist, user)
                   IN  IF w.val
                       THEN Outcome("ADMIT", 200, "", user.email, d.public_key,
                                    w.user_whitelist,
                                    d.events \o w.events \o <<"g.current_user=", "view">>,
                                    d, user.email, w)
                       ELSE reject_not_whitelisted(d, w, user)
              ELSE Outcome("REJECT", 401, MSG_AUTH_REQUIRED, UNAUTHENTICATED_EMAIL,
                           d.public_key, user_whitelist,
                           d.events \o <<"g.current_user=", "raise">>,
                           d, user.email, NotCalled)

-----------------------------------------------------------------------------
(* The requests, the settings and the answers of the identity provider *)

ALICE == <<"a", "l", "i", "c", "e">>

NOBODY == <<"n", "o", "b", "o", "d", "y">>

ALICE_BOB == <<"a", "l", "i", "c", "e", ",", "b", "o", "b">>

NOWHERE_NODOMAIN == <<"n", "o", "w", "h", "e", "r", "e", ".", "n", "o", "d", "o", "m", "a", "i", "n">>

ALICE_EMAIL == FormatEmail(ALICE, DEFAULT_USER_DOMAIN)

CAROL_EMAIL == FormatEmail(<<"c", "a", "r", "o", "l">>, DEFAULT_USER_DOMAIN)

\* the degenerate entry '@redhat.com' of an empty USER_WHITELIST
AT_DOMAIN_EMAIL == FormatEmail(<<>>, DEFAULT_USER_DOMAIN)

AUD_A == <<"a">>

AUD_B == <<"b">>

TRUE_UPPER == <<"T", "R", "U", "E">>

KEYCLOAK_URL == <<"h", "t", "t", "p", ":", "/", "/", "s", "s", "o", "/">>

Environ(disable, whitelist, domain) ==
  [DISABLE_AUTHENTICATION |-> disable, USER_WHITELIST |-> whitelist, USER_DOMAIN |-> domain]

Config(url, key, audience) ==
  [BAYESIAN_FETCH_PUBLIC_KEY |-> url, BAYESIAN_PUBLIC_KEY |-> key,
   BAYESIAN_JWT_AUDIENCE |-> audience]

\* 'a,b'
AUD_A_B == AUD_A \o <<",">> \o AUD_B

\* a token of alice signed with KEY1 for audience a, and its variations
GoodToken == Token(TRUE, KEY1, FALSE, {AUD_A}, ALICE_EMAIL)

Tokens ==
  { GoodToken,
    [GoodToken EXCEPT !.aud = {AUD_B}],
    [GoodToken EXCEPT !.aud = {AUD_A, AUD_B}],
    [GoodToken EXCEPT !.aud = {}],
    [GoodToken EXCEPT !.signer = KEY2],
    [GoodToken EXCEPT !.expired = TRUE],
    [GoodToken EXCEPT !.ascii = FALSE],
    [GoodToken EXCEPT !.email = CAROL_EMAIL],
    [GoodToken EXCEPT !.email = PyNone] }

Headers ==
  {NoHeader, Header(FALSE, GoodToken)} \cup {Header(TRUE, t) : t \in Tokens}

\* requests.get was not called
NoResponse == Response("not called", 0, FALSE, PyNone)

Responses ==
  { Response("Timeout", 0, FALSE, PyNone),
    Response("ConnectionError", 0, FALSE, PyNone),
    Response("", 500, TRUE, PyNone),
    Response("", 200, FALSE, PyNone),
    Response("", 200, TRUE, PyNone),
    Response("", 200, TRUE, KEY1),
    Response("", 200, TRUE, KEY2) }

\* whether wrapper gets as far as requests.get
CallsGet(env, cfg, header) ==
  /\ env.DISABLE_AUTHENTICATION \notin DISABLE_VALUES
  /\ header.present
  /\ Truthy(cfg.BAYESIAN_FETCH_PUBLIC_KEY)

NoThreads == [t \in 1..NumThreads |-> [pc |-> "idle"]]

NoRequest == [header |-> NoHeader, resp |-> NoResponse, bypass |-> FALSE, result |-> NotCalled]

\* The process has just started with environment env and configuration cfg.
Started(env, cfg) ==
  /\ environ = env
  /\ config = cfg
  /\ app_public_key = PyNone
  /\ app_user_whitelist = <<>>
  /\ first_environ = env
  /\ nreq = 0
  /\ last = NoRequest
  /\ th = NoThreads

\* One request goes through wrapper, from its first line to its return or
\* raise.  resp is what requests.get answers if it is called.
Request(header, resp) ==
  /\ nreq < MaxRequests
  /\ resp = NoResponse <=> ~CallsGet(environ, config, header)
  /\ LET r == wrapper(environ, config, app_public_key, app_user_whitelist, header, resp)
     IN  /\ app_public_key' = r.public_key
         /\ app_user_whitelist' = r.user_whitelist
         /\ first_environ' = IF Truthy(app_user_whitelist) \/ r.allowed = NotCalled
                             THEN first_environ ELSE environ
         /\ last' = [header |-> header, resp |-> resp,
                     bypass |-> environ.DISABLE_AUTHENTICATION \in DISABLE_VALUES,
                     result |-> r]
  /\ nreq' = nreq + 1
  /\ UNCHANGED <<environ, config, th>>

-----------------------------------------------------------------------------
(* Spec: authentication is on and the environment is fixed; one request is  *)
(* handled after the other.                                                *)

\* no USER_WHITELIST and no USER_DOMAIN; 'alice,bob' in the default domain;
\* 'nobody' in the domain 'nowhere.nodomain'
SpecEnvirons ==
  { Environ(PyNone, PyNone, PyNone),
    Environ(PyNone, ALICE_BOB, PyNone),
    Environ(PyNone, NOBODY, NOWHERE_NODOMAIN) }

\* a static key and no identity provider, neither, or an identity provider
SpecConfigs ==
  { Config(PyNone, Pem(KEY1), AUD_A_B),
    Config(PyNone, Pem(KEY1), AUD_B),
    Config(PyNone, PyNone, AUD_A_B),
    Config(KEYCLOAK_URL, PyNone, AUD_A_B),
    Config(KEYCLOAK_URL, PyNone, AUD_B) }

Init == \E env \in SpecEnvirons, cfg \in SpecConfigs : Started(env, cfg)

Next == \E header \in Headers, resp \in Responses \cup {NoResponse} : Request(header, resp)

Spec == Init /\ [][Next]_vars

\* A request has been handled with authentication on.
Authenticated == nreq > 0 /\ ~last.bypass

\* Some audience of the configuration verifies the token under pub_key.
Verifies(token, pub_key, audiences) ==
  \E k \in 1..Len(audiences) : jwt_decode(token, pub_key, audiences[k]).kind = "return"

\* C1: with authentication on, a request without Authorization header is
\* rejected with status 401 and the message 'token missing'.
C1_NoHeaderIsTokenMissing ==
  (Authenticated /\ ~last.header.present) =>
    /\ last.result.outcome = "REJECT"
    /\ last.result.status = 401
    /\ last.result.message = MSG_TOKEN_MISSING

\* C2: with authentication on, a token whose verification fails with an
\* expired signature for every configured audience is rejected with status
\* 401 and the message 'token has expired', which is not the message of an
\* undecodable token.
C2_ExpiredIsTokenHasExpired ==
  LET audiences == Split(config.BAYESIAN_JWT_AUDIENCE)
  IN  ( /\ Authenticated
        /\ last.header.present
        /\ last.result.decoded.fetched.kind = "return"
        /\ \A k \in 1..Len(audiences) :
             jwt_decode(last.header.token, last.result.decoded.fetched.val,
                        audiences[k]).exc = "ExpiredSignatureError" ) =>
        /\ last.result.outcome = "REJECT"
        /\ last.result.status = 401
        /\ last.result.message = MSG_TOKEN_EXPIRED
        /\ MSG_TOKEN_EXPIRED # MSG_COULD_NOT_DECODE

\* C3: with authentication on, the wrapped handler runs only for a request
\* that carries a token verified under the resolved key for some configured
\* audience and whose identity is in the allow-list; a request without
\* Authorization header never reaches it.
C3_ViewOnlyForVerifiedToken ==
  (Authenticated /\ Happened(last.result.events, "view")) =>
    /\ last.header.present
    /\ last.result.decoded.kind = "return"
    /\ Verifies(last.header.token, last.result.decoded.pub_key,
                Split(config.BAYESIAN_JWT_AUDIENCE))
    /\ last.result.allowed.val

\* C4 as stated: with authentication on, every rejection has written the
\* resolved or sentinel identity to g.current_user before raising.
C4_EveryRejectionWritesIdentity ==
  (Authenticated /\ last.result.outcome = "REJECT") =>
    /\ last.result.current_user # PyNone
    /\ Before(last.result.events, "g.current_user=", "raise")

\* C4 amended: with authentication on, a rejection 'User is not whitelisted'
\* (or 'Authentication required') has written the sentinel identity
\* 'unauthenticated@no.auth.token' to g.current_user before raising, and a
\* rejection raised by the except clauses ('token has expired', 'could not
\* decode JWT token') has written nothing to g.current_user.
C4_OnlyWhitelistRejectionWritesIdentity ==
  (Authenticated /\ last.result.outcome = "REJECT") =>
    /\ last.result.status = 401
    /\ \/ /\ last.result.message \in {MSG_NOT_WHITELISTED, MSG_AUTH_REQUIRED}
          /\ last.result.current_user = UNAUTHENTICATED_EMAIL
          /\ Before(last.result.events, "g.current_user=", "raise")
       \/ /\ last.result.message \in {MSG_TOKEN_EXPIRED, MSG_COULD_NOT_DECODE}
          /\ last.result.current_user = PyNone
          /\ ~Happened(last.result.events, "g.current_user=")

\* A verified token of a user who is not in the allow-list has been rejected.
C4_Witness ==
  /\ Authenticated
  /\ last.header.present
  /\ last.result.decoded.kind = "return"
  /\ last.result.user = CAROL_EMAIL
  /\ last.result.outcome = "REJECT"
  /\ last.result.message = MSG_NOT_WHITELISTED

\* C6: with an identity provider configured, fetch_public_key returns '' and
\* raises nothing when requests.get times out, fails in another way
\* (ConnectionError) or answers with a status other than 200.
C6_FetchFailsSoft ==
  ( /\ Authenticated
    /\ last.header.present
    /\ Truthy(config.BAYESIAN_FETCH_PUBLIC_KEY)
    /\ \/ last.resp.exc \in {"Timeout", "ConnectionError"}
       \/ last.resp.exc = "" /\ last.resp.status_code # 200 ) =>
    /\ last.result.decoded.fetched.kind = "return"
    /\ last.result.decoded.fetched.val = <<>>

\* C9: with an identity provider configured, app.public_key keeps the value
\* stored by the first successful fetch, and every later verification uses
\* that value, whatever later fetches answer.
C9_CachedKeyIsKept ==
  [][ (Truthy(config.BAYESIAN_FETCH_PUBLIC_KEY) /\ app_public_key # PyNone) =>
        /\ app_public_key' = app_public_key
        /\ (nreq' # nreq /\ last'.header.present /\ ~last'.bypass
              /\ last'.result.decoded.attempts > 0) =>
             last'.result.decoded.pub_key = app_public_key ]_vars

-----------------------------------------------------------------------------
(* SpecEnv: one request after the other, and os.environ changes between    *)
(* them.                                                                   *)

\* values of DISABLE_AUTHENTICATION: unset, 'TRUE', and the three that disable
DisableSettings == {PyNone, TRUE_UPPER} \cup DISABLE_VALUES

\* values of USER_WHITELIST: unset, 'alice,bob'
WhitelistSettings == {PyNone, ALICE_BOB}

\* values of USER_DOMAIN: unset, 'nowhere.nodomain'
DomainSettings == {PyNone, NOWHERE_NODOMAIN}

EnvSettings ==
  [DISABLE_AUTHENTICATION |-> DisableSettings, USER_WHITELIST |-> WhitelistSettings,
   USER_DOMAIN |-> DomainSettings]

EnvEnvirons ==
  [DISABLE_AUTHENTICATION : DisableSettings, USER_WHITELIST : WhitelistSettings,
   USER_DOMAIN : DomainSettings]

EnvConfigs == {Config(PyNone, Pem(KEY1), AUD_A_B), Config(KEYCLOAK_URL, PyNone, AUD_A_B)}

\* no token, or a good token of alice, of carol, of '@redhat.com', of
\* alice@nowhere.nodomain
EnvHeaders ==
  { NoHeader,
    Header(TRUE, GoodToken),
    Header(TRUE, [GoodToken EXCEPT !.email = CAROL_EMAIL]),
    Header(TRUE, [GoodToken EXCEPT !.email = AT_DOMAIN_EMAIL]),
    Header(TRUE, [GoodToken EXCEPT !.email = FormatEmail(ALICE, NOWHERE_NODOMAIN)]) }

EnvResponses == {Response("Timeout", 0, FALSE, PyNone), Response("", 200, TRUE, KEY1)}

\* os.environ[name] = value, or del os.environ[name] for PyNone, between two
\* requests.
SetEnv(name, value) ==
  /\ environ[name] # value
  /\ environ' = [environ EXCEPT ![name] = value]
  /\ UNCHANGED <<config, app_public_key, app_user_whitelist, first_environ, nreq, last, th>>

InitEnv == \E env \in EnvEnvirons, cfg \in EnvConfigs : Started(env, cfg)

NextEnv ==
  \/ \E header \in EnvHeaders, resp \in EnvResponses \cup {NoResponse} : Request(header, resp)
  \/ \E name \in DOMAIN EnvSettings : \E value \in EnvSettings[name] : SetEnv(name, value)

SpecEnv == InitEnv /\ [][NextEnv]_vars

\* C5: a request handled while DISABLE_AUTHENTICATION is '1', 'True' or
\* 'true' is admitted and the handler runs, with or without a token, and
\* nothing else happens: no decode_token, no fetch, no user_whitelisted, no
\* write to app.public_key, app.user_whitelist or g.current_user.  With any
\* other value the bypass is not taken: decode_token is called.
C5_BypassResolvesNoIdentity ==
  [][ nreq' = nreq + 1 =>
        IF environ.DISABLE_AUTHENTICATION \in
             {<<"1">>, <<"T", "r", "u", "e">>, <<"t", "r", "u", "e">>}
        THEN /\ last'.result.outcome = "ADMIT"
             /\ last'.result.events = <<"view">>
             /\ last'.result.decoded = NotCalled
             /\ last'.result.allowed = NotCalled
             /\ last'.result.current_user = PyNone
             /\ last'.resp = NoResponse
             /\ UNCHANGED <<app_public_key, app_user_whitelist>>
        ELSE /\ last'.result.decoded # NotCalled
             /\ last'.result.events # <<"view">> ]_vars

\* With authentication disabled a request without token has been admitted,
\* after an earlier request had filled both caches, and they are as they were.
C5_Witness ==
  /\ nreq > 1
  /\ last.bypass
  /\ ~last.header.present
  /\ last.result.outcome = "ADMIT"
  /\ last.result.events = <<"view">>
  /\ app_public_key # PyNone
  /\ app_user_whitelist # <<>>

\* The pieces of s between its commas: every stretch of s without a comma
\* that begins at the start of s or after a comma and ends at the end of s or
\* before a comma.
LocalParts(s) ==
  LET ends == 1..(Len(s) + 1)
      pieces == { x \in ends \X ends :
                    /\ x[1] <= x[2]
                    /\ x[1] = 1 \/ s[x[1] - 1] = ","
                    /\ x[2] = Len(s) + 1 \/ s[x[2]] = ","
                    /\ \A k \in x[1]..(x[2] - 1) : s[k] # "," }
  IN  { SubSeq(s, x[1], x[2] - 1) : x \in pieces }

\* email is local@domain for a local-part of USER_WHITELIST (default '') and
\* the USER_DOMAIN (default 'redhat.com') of env.
AllowedBy(env, email) ==
  \E local \in LocalParts(GetOr(env.USER_WHITELIST, <<>>)) :
     email = local \o <<"@">> \o GetOr(env.USER_DOMAIN, DEFAULT_USER_DOMAIN)

\* C8: every call of user_whitelisted answers by the USER_WHITELIST and
\* USER_DOMAIN of the first access, whatever os.environ has become, and
\* app.user_whitelist, once computed, never changes.
C8_WhitelistIsTheOneOfFirstAccess ==
  /\ [](nreq > 0 /\ last.result.allowed # NotCalled =>
          last.result.allowed.val = AllowedBy(first_environ, last.result.user))
  /\ [][Truthy(app_user_whitelist) => app_user_whitelist' = app_user_whitelist]_vars

\* os.environ has changed since the first access, and a later call answered
\* what the environment of the first access says, not what the present one says.
C8_Witness ==
  /\ nreq > 1
  /\ environ # first_environ
  /\ last.result.allowed # NotCalled
  /\ last.result.allowed.events = <<"get_whitelist">>
  /\ last.result.user = ALICE_EMAIL
  /\ last.result.allowed.val
  /\ ~AllowedBy(environ, last.result.user)

-----------------------------------------------------------------------------
(* SpecDecode: decode_token is applied once, to any token under any key    *)
(* and any list of audiences.                                              *)

\* ','.join(parts)
RECURSIVE Join(_)
Join(parts) ==
  IF Len(parts) = 1 THEN parts[1] ELSE parts[1] \o <<",">> \o Join(Tail(parts))

\* the lists of one to MaxAudiences audiences among 'a', 'b' and ''
AudienceLists ==
  UNION { [1..n -> {AUD_A, AUD_B, <<>>}] : n \in 1..MaxAudiences }

\* no key, an empty key, an empty key in PEM armour, and two good keys
DecodeKeys == {PyNone, <<>>, Pem(<<>>), Pem(KEY1), Pem(KEY2)}

DecodeConfigs == { Config(PyNone, key, Join(auds)) : key \in DecodeKeys, auds \in AudienceLists }

DecodeHeaders ==
  {NoHeader} \cup
  { Header(TRUE, Token(ascii, signer, expired, aud, ALICE_EMAIL)) :
      ascii \in BOOLEAN, signer \in KeyBodies, expired \in BOOLEAN,
      aud \in SUBSET {AUD_A, AUD_B} }

\* One call of decode_token, for a request with this Authorization header.
DecodeToken(header) ==
  /\ nreq = 0
  /\ LET d == decode_token(config, app_public_key, header, NoResponse)
     IN  /\ app_public_key' = d.public_key
         /\ last' = [header |-> header, resp |-> NoResponse, bypass |-> FALSE, result |-> d]
  /\ nreq' = nreq + 1
  /\ UNCHANGED <<environ, config, app_user_whitelist, first_environ, th>>

InitDecode == \E cfg \in DecodeConfigs : Started(Environ(PyNone, PyNone, PyNone), cfg)

NextDecode == \E header \in DecodeHeaders : DecodeToken(header)

SpecDecode == InitDecode /\ [][NextDecode]_vars

\* decode_token has been applied to a token.
DecodedAToken == nreq > 0 /\ last.header.present

\* The smallest number in the set S of numbers.
Smallest(S) == CHOOSE m \in S : \A k \in S : m <= k

\* The audiences of the configuration that verify / fail with an
\* InvalidTokenError for the token, under the key of the configuration.
VerifyingAt ==
  LET audiences == Split(config.BAYESIAN_JWT_AUDIENCE)
  IN  { k \in 1..Len(audiences) :
          jwt_decode(last.header.token, config.BAYESIAN_PUBLIC_KEY, audiences[k]).kind
            = "return" }

InvalidAt ==
  LET audiences == Split(config.BAYESIAN_JWT_AUDIENCE)
  IN  { k \in 1..Len(audiences) :
          jwt_decode(last.header.token, config.BAYESIAN_PUBLIC_KEY, audiences[k]).exc
            \in InvalidTokenErrors }

\* When some audience verifies, decode_token returns the claims decoded for
\* the first one that does, and has tried no audience after it.
FirstMatchWins ==
  VerifyingAt # {} =>
    /\ last.result.kind = "return"
    /\ last.result.attempts = Smallest(VerifyingAt)
    /\ last.result.val = Claims(last.header.token.email)

\* C7 as stated: the first audience that verifies wins, and decode_token
\* raises InvalidTokenError exactly when no audience of the list verifies.
C7_RaisesIffNoAudienceVerifies ==
  DecodedAToken =>
    /\ FirstMatchWins
    /\ (last.result.kind = "raise" /\ last.result.exc = "InvalidTokenError")
         <=> VerifyingAt = {}

\* C7 amended: the first audience that verifies wins, and decode_token
\* raises InvalidTokenError exactly when every audience of the list was tried
\* and failed with an InvalidTokenError; when no audience verifies and an
\* attempt fails with another exception (a token that is not ASCII, a key
\* that cannot be loaded), that exception leaves decode_token at that attempt.
C7_RaisesIffEveryAudienceIsInvalid ==
  DecodedAToken =>
    LET n == Len(Split(config.BAYESIAN_JWT_AUDIENCE))
    IN  /\ FirstMatchWins
        /\ (last.result.kind = "raise" /\ last.result.exc = "InvalidTokenError")
             <=> InvalidAt = 1..n
        /\ (last.result.kind = "raise" /\ last.result.exc = "InvalidTokenError")
             => last.result.attempts = n
        /\ (VerifyingAt = {} /\ InvalidAt # 1..n) =>
             /\ last.result.kind = "raise"
             /\ last.result.exc \notin InvalidTokenErrors
             /\ last.result.attempts = Smallest((1..n) \ InvalidAt)

\* The token verified for the second audience after it failed for the first,
\* and a third audience was not tried.
C7_Witness ==
  /\ DecodedAToken
  /\ Len(Split(config.BAYESIAN_JWT_AUDIENCE)) > 2
  /\ 1 \notin VerifyingAt
  /\ 3 \in VerifyingAt
  /\ last.result.kind = "return"
  /\ last.result.attempts = 2

-----------------------------------------------------------------------------
(* SpecConc: NumThreads requests are handled at once.  A step of a thread  *)
(* runs wrapper up to its next read or write of app.public_key or          *)
(* app.user_whitelist.                                                     *)

Threads == 1..NumThreads

ConcEnvirons == {Environ(PyNone, ALICE_BOB, PyNone)}

ConcConfigs == {Config(PyNone, Pem(KEY1), AUD_A_B), Config(KEYCLOAK_URL, PyNone, AUD_A_B)}

ConcHeaders ==
  {NoHeader, Header(TRUE, GoodToken), Header(TRUE, [GoodToken EXCEPT !.email = CAROL_EMAIL])}

ConcResponses ==
  { Response("Timeout", 0, FALSE, PyNone),
    Response("ConnectionError", 0, FALSE, PyNone),
    Response("", 200, TRUE, KEY1),
    Response("", 200, TRUE, KEY2) }

\* A thread in wrapper: where it is, its request and what requests.get
\* answers it, its local variables pub_key and user, and, when it is done,
\* how it ended and the g.current_user of its request.
Thread(pc, header, resp, pub_key, user, outcome, message, current_user) ==
  [pc |-> pc, header |-> header, resp |-> resp, pub_key |-> pub_key, user |-> user,
   outcome |-> outcome, message |-> message, current_user |-> current_user]

\* The thread has left wrapper as the result r of wrapper or except_clauses says.
Done(thread, r) ==
  [thread EXCEPT !.pc = "done", !.outcome = r.outcome, !.message = r.message,
                 !.current_user = r.current_user]

UnchangedHistory == UNCHANGED <<environ, config, first_environ, nreq, last>>

\* wrapper is entered: the bypass, and decode_token up to the call of
\* fetch_public_key.
Begin(t, header, resp) ==
  /\ th[t].pc = "idle"
  /\ resp = NoResponse <=> ~CallsGet(environ, config, header)
  /\ LET thread == Thread("get", header, resp, PyNone, PyNone, "", "", PyNone)
     IN  th' = [th EXCEPT ![t] =
           IF environ.DISABLE_AUTHENTICATION \in DISABLE_VALUES
           THEN Done(thread, wrapper(environ, config, app_public_key, app_user_whitelist,
                                     header, resp))
           ELSE IF ~header.present
           THEN [thread EXCEPT !.pc = "get_whitelist", !.user = NOBODY_EMAIL]
           ELSE thread]
  /\ UNCHANGED <<app_public_key, app_user_whitelist>>
  /\ UnchangedHistory

\* fetch_public_key up to its assignment to app.public_key, or to its
\* return '' or its exception.
Get(t) ==
  /\ th[t].pc = "get"
  /\ LET f == fetch_public_key(config, app_public_key, th[t].resp)
     IN  /\ app_public_key' = f.public_key
         /\ th' = [th EXCEPT ![t] =
              IF f.kind = "raise"
              THEN Done(@, except_clauses(f.exc, f, app_user_whitelist))
              ELSE IF Happened(f.events, "app.public_key=")
              THEN [@ EXCEPT !.pc = "return_key"]
              ELSE [@ EXCEPT !.pc = "jwt", !.pub_key = f.val]]
  /\ UNCHANGED app_user_whitelist
  /\ UnchangedHistory

\* return app.public_key
ReturnKey(t) ==
  /\ th[t].pc = "return_key"
  /\ th' = [th EXCEPT ![t] = [@ EXCEPT !.pc = "jwt", !.pub_key = app_public_key]]
  /\ UNCHANGED <<app_public_key, app_user_whitelist>>
  /\ UnchangedHistory

\* The loop of decode_token and, in wrapper, the except clauses or the
\* F8aUser built from the claims.
Jwt(t) ==
  /\ th[t].pc = "jwt"
  /\ LET d == decode_loop(th[t].header.token, th[t].pub_key,
                          Split(config.BAYESIAN_JWT_AUDIENCE), 1)
     IN  th' = [th EXCEPT ![t] =
           IF d.kind = "raise"
           THEN Done(@, except_clauses(d.exc, [public_key |-> app_public_key, events |-> <<>>],
                                       app_user_whitelist))
           ELSE [@ EXCEPT !.pc = "get_whitelist",
                          !.user = GetOr(d.val.email, NOBODY_EMAIL)]]
  /\ UNCHANGED <<app_public_key, app_user_whitelist>>
  /\ UnchangedHistory

\* if not getattr(app, 'user_whitelist', ''), and the tuple built from os.environ
TestWhitelist(t) ==
  /\ th[t].pc = "get_whitelist"
  /\ th' = [th EXCEPT ![t] =
       [@ EXCEPT !.pc = IF Truthy(app_user_whitelist) THEN "return_whitelist"
                        ELSE "set_whitelist"]]
  /\ UNCHANGED <<app_public_key, app_user_whitelist>>
  /\ UnchangedHistory

\* app.user_whitelist = whitelist
SetWhitelist(t) ==
  /\ th[t].pc = "set_whitelist"
  /\ app_user_whitelist' = compute_whitelist(environ)
  /\ th' = [th EXCEPT ![t] = [@ EXCEPT !.pc = "return_whitelist"]]
  /\ UNCHANGED app_public_key
  /\ UnchangedHistory

\* return app.user_whitelist, and wrapper from the result of
\* user_whitelisted to its end.
ReturnWhitelist(t) ==
  /\ th[t].pc = "return_whitelist"
  /\ LET user == F8aUser(th[t].user)
         allowed == \E k \in 1..Len(app_user_whitelist) : app_user_whitelist[k] = user.email
         d == [public_key |-> app_public_key, events |-> <<>>]
         w == [user_whitelist |-> app_user_whitelist, events |-> <<>>]
     IN  th' = [th EXCEPT ![t] =
           IF allowed
           THEN [@ EXCEPT !.pc = "done", !.outcome = "ADMIT", !.current_user = user.email]
           ELSE Done(@, reject_not_whitelisted(d, w, user))]
  /\ UNCHANGED <<app_public_key, app_user_whitelist>>
  /\ UnchangedHistory

InitConc == \E env \in ConcEnvirons, cfg \in ConcConfigs : Started(env, cfg)

NextConc ==
  \E t \in Threads :
    \/ \E header \in ConcHeaders, resp \in ConcResponses \cup {NoResponse} :
         Begin(t, header, resp)
    \/ Get(t)
    \/ ReturnKey(t)
    \/ Jwt(t)
    \/ TestWhitelist(t)
    \/ SetWhitelist(t)
    \/ ReturnWhitelist(t)

SpecConc == InitConc /\ [][NextConc]_vars

\* What the request of a thread comes to when it is handled alone, with the
\* same answer of requests.get.
Alone(thread) == wrapper(environ, config, PyNone, <<>>, thread.header, thread.resp)

\* C10: whatever the interleaving, every request ends as it does when it is
\* handled alone with the same answer of requests.get: the same ADMIT or
\* REJECT, the same message, the same identity in its g.current_user.
C10_EveryRequestEndsAsAlone ==
  /\ \A t \in Threads :
       th[t].pc = "done" =>
         /\ th[t].outcome = Alone(th[t]).outcome
         /\ th[t].message = Alone(th[t]).message
         /\ th[t].current_user = Alone(th[t]).current_user
  /\ app_public_key # PyNone =>
       \E t \in Threads :
         /\ th[t].pc \notin {"idle", "get"}
         /\ app_public_key = Alone(th[t]).public_key
  /\ app_user_whitelist # <<>> => app_user_whitelist = compute_whitelist(environ)

====
